---- MODULE Spec2Model ----
(***************************************************************************)
(* A model of src/bgp.py: the RouteServerInteraction class, which keeps a  *)
(* nested dict of route-server endpoints, re-fetches every endpoint's BIRD *)
(* status JSON on each lookup, and answers "where does AS<n> peer".        *)
(*                                                                         *)
(* Python values are modelled as follows.                                  *)
(*   - An optional value (a dict key that may be missing, a .get() that    *)
(*     may return None) is a sequence of length at most one: None is <<>>  *)
(*     and a present value x is <<x>>.                                     *)
(*   - A str handed to on_message is the sequence of its code points.      *)
(*   - A dict that the code iterates is a sequence in insertion order.     *)
(***************************************************************************)
EXTENDS Integers, Sequences, FiniteSets, TLC

VARIABLES
    constructed,    \* TRUE when __init__ returned, FALSE when it raised
    route_servers,  \* self.route_servers, flattened to one entry per endpoint
    call            \* the last call made on the object, its input and outcome

vars == <<constructed, route_servers, call>>

----------------------------------------------------------------------------
(* Bounds of the model *)

\* how many of the configured endpoints, in configuration order, are modelled
NumEndpoints == 2

\* longest text input enumerated character by character
MaxLen == 2

----------------------------------------------------------------------------
(* Optional values *)

None == <<>>

Some(x) == <<x>>

----------------------------------------------------------------------------
(* The configuration built by __init__ *)

\* the (location, route server) keys of self.route_servers in insertion order
ConfiguredEndpoints ==
    << [loc |-> "SYD", rs |-> "rs1"], [loc |-> "SYD", rs |-> "rs2"],
       [loc |-> "MEL", rs |-> "rs1"], [loc |-> "MEL", rs |-> "rs2"],
       [loc |-> "ADL", rs |-> "rs1"], [loc |-> "ADL", rs |-> "rs2"],
       [loc |-> "BNE", rs |-> "rs1"], [loc |-> "BNE", rs |-> "rs2"],
       [loc |-> "PER", rs |-> "rs1"], [loc |-> "PER", rs |-> "rs2"],
       [loc |-> "DRW", rs |-> "rs1"], [loc |-> "HBA", rs |-> "rs1"] >>

Endpoints == SubSeq(ConfiguredEndpoints, 1, NumEndpoints)

EndpointIds == 1..Len(Endpoints)

\* os.getenv(name): the URL text, or None when the variable is unset
UrlValues == { Some("url"), None }

----------------------------------------------------------------------------
(* What an endpoint can answer to one GET *)

Session(id, as, descr, state) ==
    [id |-> id, neighbor_as |-> as, description |-> descr, state |-> state]

SessFoo == Session("s1", Some(64500), Some("Foo"), Some("Established"))
SessBar == Session("s1", Some(64500), Some("Bar"), Some("Idle"))
SessDup == Session("s2", Some(64500), Some("Baz"), Some("Established"))
SessTel == Session("s3", Some(1221), Some("Telstra"), Some("Established"))
SessNoAs == Session("s4", None, Some("Mgmt"), None)

\* a parsed JSON document: the value of its 'protocols' key, when it has one
Doc(protocols) == [protocols |-> protocols]

TableA == Doc(Some(<<SessFoo>>))
TableB == Doc(Some(<<SessBar, SessDup, SessTel, SessNoAs>>))
NoProtocols == Doc(None)

\* requests.get raised ConnectionError
Refused == [kind |-> "refused", status |-> 0, json |-> FALSE, doc |-> NoProtocols]

\* a response arrived: its status code, and its body parsed as JSON if it parses
Http(status, json, doc) == [kind |-> "http", status |-> status, json |-> json, doc |-> doc]

Responses ==
    { Refused,
      Http(200, FALSE, NoProtocols),
      Http(200, TRUE, TableA),
      Http(200, TRUE, TableB),
      Http(200, TRUE, NoProtocols),
      Http(500, TRUE, TableA) }

----------------------------------------------------------------------------
(* _load_bird_data *)

Entry(url, data, error) == [url |-> url, data |-> data, error |-> error]

\* the body of the loop for one endpoint: the entry after the fetch. A refused
\* connection raises ConnectionError and a body that is not JSON makes .json()
\* raise JSONDecodeError; both set 'error' and leave 'data' as it was. Any body
\* that parses is stored under 'data', whatever the status code, and 'error'
\* is left as it was.
FetchOne(rsd, resp) ==
    IF resp.kind = "refused" THEN [rsd EXCEPT !.error = Some(TRUE)]
    ELSE IF ~resp.json THEN [rsd EXCEPT !.error = Some(TRUE)]
    ELSE [rsd EXCEPT !.data = Some(resp.doc)]

\* the loop from endpoint i on; requests.get(None) raises MissingSchema, which
\* the except clause does not name, so it leaves the loop and the function
RECURSIVE LoadFrom(_, _, _, _)
LoadFrom(i, rsv, resp, fetched) ==
    IF i > Len(Endpoints) THEN [rs |-> rsv, fetched |-> fetched, exc |-> ""]
    ELSE IF rsv[i].url = None
         THEN [rs |-> rsv, fetched |-> fetched, exc |-> "MissingSchema"]
         ELSE LoadFrom(i + 1, [rsv EXCEPT ![i] = FetchOne(rsv[i], resp[i])],
                       resp, Append(fetched, resp[i]))

_load_bird_data(rsv, resp) == LoadFrom(1, rsv, resp, <<>>)

get_responses(rsv, resp) == _load_bird_data(rsv, resp)

----------------------------------------------------------------------------
(* _int_convert: Python's int(str), base 10.  A str is the sequence of its *)
(* characters' code points.                                                *)

\* ord(c) of the characters the texts below are written with
Code(c) ==
    CASE c = "0" -> 48 [] c = "1" -> 49 [] c = "2" -> 50 [] c = "3" -> 51
      [] c = "4" -> 52 [] c = "5" -> 53 [] c = "6" -> 54 [] c = "7" -> 55
      [] c = "8" -> 56 [] c = "9" -> 57 [] c = "a" -> 97 [] c = "b" -> 98
      [] c = "c" -> 99 [] c = " " -> 32 [] c = "+" -> 43 [] c = "-" -> 45
      [] c = "_" -> 95 [] c = "\t" -> 9 [] c = "\n" -> 10 [] c = "\r" -> 13

\* the str written with the given characters
Text(s) == [i \in 1..Len(s) |-> Code(s[i])]

Underscore == Code("_")

Plus == Code("+")

Minus == Code("-")

\* the code point of the digit zero of every Unicode decimal-digit block
\* (category Nd); the block's digits 0..9 follow it in order
DecimalZeros ==
    {
      48, 1632, 1776, 1984, 2406, 2534, 2662, 2790,
      2918, 3046, 3174, 3302, 3430, 3558, 3664, 3792,
      3872, 4160, 4240, 6112, 6160, 6470, 6608, 6784,
      6800, 6992, 7088, 7232, 7248, 42528, 43216, 43264,
      43472, 43504, 43600, 44016, 65296, 66720, 68912, 69734,
      69872, 69942, 70096, 70384, 70736, 70864, 71248, 71360,
      71472, 71904, 72016, 72784, 73040, 73120, 92768, 92864,
      93008, 120782, 120792, 120802, 120812, 120822, 123200, 123632,
      125264, 130032 }

\* the characters int() reads as decimal digits
Digits == UNION { z..(z + 9) : z \in DecimalZeros }

DigitVal(c) == c - (CHOOSE z \in DecimalZeros : c \in z..(z + 9))

\* the characters int() ignores at either end of the text
Whitespace ==
    {9, 10, 11, 12, 13, 32, 133, 160, 5760} \cup (8192..8202)
      \cup {8232, 8233, 8239, 8287, 12288}

RECURSIVE LStrip(_)
LStrip(s) == IF s # <<>> /\ Head(s) \in Whitespace THEN LStrip(Tail(s)) ELSE s

RECURSIVE RStrip(_)
RStrip(s) ==
    IF s # <<>> /\ s[Len(s)] \in Whitespace THEN RStrip(SubSeq(s, 1, Len(s) - 1)) ELSE s

Strip(s) == RStrip(LStrip(s))

HasSign(s) == s # <<>> /\ Head(s) \in {Plus, Minus}

\* the digits of a literal: digits, with single underscores between digits
\* only, and no more digits than the interpreter converts (4300)
IsDigitGroup(d) ==
    /\ d # <<>>
    /\ \A i \in 1..Len(d) : d[i] \in Digits \cup {Underscore}
    /\ d[1] \in Digits
    /\ d[Len(d)] \in Digits
    /\ \A i \in 1..(Len(d) - 1) : ~(d[i] = Underscore /\ d[i + 1] = Underscore)
    /\ Cardinality({ i \in 1..Len(d) : d[i] \in Digits }) <= 4300

RECURSIVE DigitsValue(_, _)
DigitsValue(d, acc) ==
    IF d = <<>> THEN acc
    ELSE IF Head(d) = Underscore THEN DigitsValue(Tail(d), acc)
    ELSE DigitsValue(Tail(d), 10 * acc + DigitVal(Head(d)))

\* whether int(item) returns rather than raising ValueError
IsIntLiteral(item) ==
    LET t == Strip(item) IN
    IsDigitGroup(IF HasSign(t) THEN Tail(t) ELSE t)

\* the value int(item) returns, for a literal
IntValue(item) ==
    LET t == Strip(item)
        v == DigitsValue(IF HasSign(t) THEN Tail(t) ELSE t, 0)
    IN IF HasSign(t) /\ Head(t) = Minus THEN -v ELSE v

\* a Python int or bool: False is the int 0 of type bool, and `not x` holds of
\* False and of 0 alike
PyInt(n) == [isBool |-> FALSE, val |-> n]

PyFalse == [isBool |-> TRUE, val |-> 0]

Not(x) == x.val = 0

\* a variant that reports a failure with the sentinel -1 in place of False
_int_convert_sentinel(item) ==
    IF IsIntLiteral(item) THEN PyInt(IntValue(item)) ELSE PyInt(-1)

\* int(item), or False when int raises ValueError
_int_convert(item) ==
    IF IsIntLiteral(item) THEN PyInt(IntValue(item)) ELSE PyFalse

----------------------------------------------------------------------------
(* Results and the call record *)

Result(kind, text, asn, caption, rows, index, exc) ==
    [kind |-> kind, text |-> text, asn |-> asn, caption |-> caption,
     rows |-> rows, index |-> index, exc |-> exc]

Returned == Result("none", "", 0, None, <<>>, <<>>, "")

Raised(exc) == Result("raise", "", 0, None, <<>>, <<>>, exc)

IntArg(n) == [type |-> "int", int |-> n, text |-> <<>>]

StrArg(s) == [type |-> "str", int |-> 0, text |-> s]

NoArg == [type |-> "none", int |-> 0, text |-> <<>>]

\* fetched: the answers the call's GETs received, in the order they were issued
\* (the i-th GET of a refresh goes to the i-th endpoint)
Call(op, arg, fetched, result) ==
    [op |-> op, arg |-> arg, fetched |-> fetched, result |-> result]

----------------------------------------------------------------------------
(* check_asn *)

Row(loc, rs, asn, name, state) ==
    [loc |-> loc, rs |-> rs, asn |-> asn, name |-> name, state |-> state]

\* `location in response and route_server in response[location]`
HasRow(response, loc, rs) ==
    \E k \in 1..Len(response) : response[k].loc = loc /\ response[k].rs = rs

\* the loop over one endpoint's sessions: the first session of the wanted ASN
\* makes the endpoint's row, and later ones find the key already there
RECURSIVE ScanSessions(_, _, _, _)
ScanSessions(sessions, ep, checked_asn, response) ==
    IF sessions = <<>> THEN response
    ELSE LET asn_data == Head(sessions)
             hit == asn_data.neighbor_as = Some(checked_asn)
             added == IF hit /\ ~HasRow(response, ep.loc, ep.rs)
                      THEN Append(response,
                                  Row(ep.loc, ep.rs, checked_asn,
                                      asn_data.description, asn_data.state))
                      ELSE response
         IN ScanSessions(Tail(sessions), ep, checked_asn, added)

\* the loop over the endpoints from endpoint i on; a subscript of a missing key
\* raises KeyError, which nothing catches
RECURSIVE ScanEndpoints(_, _, _, _)
ScanEndpoints(i, data, checked_asn, response) ==
    IF i > Len(Endpoints) THEN [response |-> response, exc |-> ""]
    ELSE IF data[i].error # None
         THEN ScanEndpoints(i + 1, data, checked_asn, response)
    ELSE IF data[i].data = None \/ data[i].data[1].protocols = None
         THEN [response |-> response, exc |-> "KeyError"]
    ELSE ScanEndpoints(i + 1, data, checked_asn,
                       ScanSessions(data[i].data[1].protocols[1], Endpoints[i],
                                    checked_asn, response))

\* returns the refreshed entries, the answers fetched, and the response dict
\* (one row per (location, route server) key, in insertion order) or the
\* exception raised
check_asn(rsv, checked_asn, resp) ==
    LET r == get_responses(rsv, resp) IN
    IF r.exc # ""
    THEN [rs |-> r.rs, fetched |-> r.fetched, response |-> <<>>, exc |-> r.exc]
    ELSE LET sc == ScanEndpoints(1, r.rs, checked_asn, <<>>) IN
         [rs |-> r.rs, fetched |-> r.fetched, response |-> sc.response, exc |-> sc.exc]

----------------------------------------------------------------------------
(* parse *)

TableRow(row) == [City |-> row.loc, RouteServer |-> row.rs, State |-> row.state]

\* the table's rows, and the name of the last row iterated as the caption
parse(data) ==
    Result("table", "", 0, data[Len(data)].name,
           [k \in 1..Len(data) |-> TableRow(data[k])], <<>>, "")

----------------------------------------------------------------------------
(* on_message *)

InvalidText == "Please enter a valid ASN!"

NoChanceText ==
    "The day Telstra peer on EdgeIX Route Servers is the day Joe shaves his beard.."

\* the f-string of line 96; the number interpolated is the result's asn field
NotFoundText ==
    "AS{asn} is not present on any Route Servers.. perhaps they should email peering@edgeix.net?"

Advisory(text, asn, caption) == Result("advisory", text, asn, Some(caption), <<>>, <<>>, "")

Telstra == 1221

\* the value of `asn` after lines 83-84
Converted(arg) == IF arg.type = "str" THEN _int_convert(arg.text) ELSE PyInt(arg.int)

Outcome(rsv, fetched, result) == [rs |-> rsv, fetched |-> fetched, result |-> result]

on_message(rsv, arg, resp) ==
    LET asn == Converted(arg) IN
    IF arg.type = "str" /\ Not(asn)
    THEN Outcome(rsv, <<>>, Advisory(InvalidText, 0, "Response"))
    ELSE IF asn.val = Telstra
    THEN Outcome(rsv, <<>>, Advisory(NoChanceText, 0, "No Chance"))
    ELSE LET c == check_asn(rsv, asn.val, resp) IN
         IF c.exc # "" THEN Outcome(c.rs, c.fetched, Raised(c.exc))
         ELSE IF Len(c.response) = 0
         THEN Outcome(c.rs, c.fetched, Advisory(NotFoundText, asn.val, "Response"))
         ELSE Outcome(c.rs, c.fetched, parse(c.response))

----------------------------------------------------------------------------
(* asns *)

Label(ep) == <<ep.loc, " - ", ep.rs>>

IndexEntry(asn, descr, locs) == [asn |-> asn, descr |-> descr, locs |-> locs]

HasKey(index, asn) == \E k \in 1..Len(index) : index[k].asn = asn

\* asns.update({asn: {'descr': ..., 'locs': locs}}) with locs the key's earlier
\* list, or a new one, with the label appended
Update(index, asn, descr, label) ==
    IF HasKey(index, asn)
    THEN [k \in 1..Len(index) |->
             IF index[k].asn = asn
             THEN IndexEntry(asn, descr, Append(index[k].locs, label))
             ELSE index[k]]
    ELSE Append(index, IndexEntry(asn, descr, <<label>>))

RECURSIVE IndexSessions(_, _, _)
IndexSessions(sessions, ep, index) ==
    IF sessions = <<>> THEN index
    ELSE LET asn_data == Head(sessions) IN
         IndexSessions(Tail(sessions), ep,
                       IF asn_data.neighbor_as # None
                       THEN Update(index, asn_data.neighbor_as[1],
                                   asn_data.description, Label(ep))
                       ELSE index)

RECURSIVE IndexEndpoints(_, _, _)
IndexEndpoints(i, rsv, index) ==
    IF i > Len(Endpoints) THEN Result("index", "", 0, None, <<>>, index, "")
    ELSE IF rsv[i].data = None THEN IndexEndpoints(i + 1, rsv, index)
    ELSE IF rsv[i].data[1].protocols = None THEN Raised("KeyError")
    ELSE IndexEndpoints(i + 1, rsv,
                        IndexSessions(rsv[i].data[1].protocols[1], Endpoints[i], index))

\* the dict the property returns, as its entries in insertion order
asns(rsv) == IndexEndpoints(1, rsv, <<>>)

----------------------------------------------------------------------------
(* Inputs *)

Chars == { Code("0"), Code("7"), Code("a"), Code("-"), Code(" ") }

RECURSIVE StringsOfLen(_)
StringsOfLen(n) ==
    IF n = 0 THEN { <<>> }
    ELSE { Append(s, c) : s \in StringsOfLen(n - 1), c \in Chars }

\* every text of at most MaxLen characters over Chars
ShortTexts == UNION { StringsOfLen(n) : n \in 0..MaxLen }

\* "64500", "1221", "0", "abc", "64500\n" and U+0663 (the Arabic-Indic digit
\* three)
NamedTexts ==
    { Text(<<"6", "4", "5", "0", "0">>), Text(<<"1", "2", "2", "1">>), Text(<<"0">>),
      Text(<<"a", "b", "c">>), Text(<<"6", "4", "5", "0", "0", "\n">>), <<1635>> }

\* "\t7", "7\r", U+0667 (the Arabic-Indic digit seven), U+00A0 "7" (no-break
\* space) and U+001C "7" (a separator that str.isspace accepts and int does
\* not)
SpacedTexts ==
    { Text(<<"\t", "7">>), Text(<<"7", "\r">>), <<1639>>, <<160, 55>>, <<28, 55>> }

IntInputs == { 0, Telstra, 9999, 64500 }

\* the numbers check_asn is called with directly
CheckedAsns == { Telstra, 64500 }

Inputs == { IntArg(n) : n \in IntInputs } \cup { StrArg(s) : s \in NamedTexts }

TextInputs == { StrArg(s) : s \in ShortTexts \cup SpacedTexts }

\* whether on_message(arg) reaches check_asn, and so draws the endpoints' answers
Fetches(arg) ==
    /\ ~(arg.type = "str" /\ Not(Converted(arg)))
    /\ Converted(arg).val # Telstra

NoAnswers == [i \in EndpointIds |-> Refused]

Answers(arg, responses) ==
    IF Fetches(arg) THEN [EndpointIds -> responses] ELSE { NoAnswers }

----------------------------------------------------------------------------
(* __init__ and the calls on the constructed object *)

InitEntries(urls) == [i \in EndpointIds |-> Entry(urls[i], None, None)]

\* __init__: builds the entries from the environment and calls get_responses
Construct(responses) ==
    \E urls \in [EndpointIds -> UrlValues], resp \in [EndpointIds -> responses] :
        LET r == get_responses(InitEntries(urls), resp) IN
        /\ constructed = (r.exc = "")
        /\ route_servers = r.rs
        /\ call = Call("__init__", NoArg, r.fetched,
                       IF r.exc = "" THEN Returned ELSE Raised(r.exc))

\* a direct call of get_responses()
RefreshWith(responses) ==
    /\ constructed
    /\ \E resp \in [EndpointIds -> responses] :
        LET r == get_responses(route_servers, resp) IN
        /\ route_servers' = r.rs
        /\ call' = Call("get_responses", NoArg, r.fetched,
                        IF r.exc = "" THEN Returned ELSE Raised(r.exc))
    /\ UNCHANGED constructed

\* a call of on_message(arg)
LookupWith(inputs, responses) ==
    /\ constructed
    /\ \E arg \in inputs : \E resp \in Answers(arg, responses) :
        LET o == on_message(route_servers, arg, resp) IN
        /\ route_servers' = o.rs
        /\ call' = Call("on_message", arg, o.fetched, o.result)
    /\ UNCHANGED constructed

\* the dict check_asn returns, as its rows in insertion order
Response(rows) == Result("response", "", 0, None, rows, <<>>, "")

\* a direct call of check_asn(checked_asn)
CheckAsnWith(numbers, responses) ==
    /\ constructed
    /\ \E n \in numbers : \E resp \in [EndpointIds -> responses] :
        LET c == check_asn(route_servers, n, resp) IN
        /\ route_servers' = c.rs
        /\ call' = Call("check_asn", IntArg(n), c.fetched,
                        IF c.exc = "" THEN Response(c.response) ELSE Raised(c.exc))
    /\ UNCHANGED constructed

\* a read of the asns property
ReadAsns ==
    /\ constructed
    /\ call' = Call("asns", NoArg, <<>>, asns(route_servers))
    /\ UNCHANGED <<constructed, route_servers>>

Init == Construct(Responses)

Refresh == RefreshWith(Responses)

Lookup == LookupWith(Inputs, Responses)

CheckAsn == CheckAsnWith(CheckedAsns, Responses)

Next == Refresh \/ Lookup \/ CheckAsn \/ ReadAsns

Spec == Init /\ [][Next]_vars

----------------------------------------------------------------------------
(* The same object, called with every short text, against endpoints that   *)
(* either refuse the connection or serve a table                           *)

TextResponses == { Refused, Http(200, TRUE, TableA) }

InitText == Construct(TextResponses)

RefreshText == RefreshWith(TextResponses)

LookupText == LookupWith(TextInputs, TextResponses)

CheckAsnText == CheckAsnWith(CheckedAsns, TextResponses)

NextText == RefreshText \/ LookupText \/ CheckAsnText \/ ReadAsns

SpecText == InitText /\ [][NextText]_vars

----------------------------------------------------------------------------
(* Vocabulary of the properties: what the last call was given and received *)

IsLookup == constructed /\ call.op = "on_message"

\* the call's input is an integer, or a text that int() parses
ArgIsInteger ==
    \/ call.arg.type = "int"
    \/ call.arg.type = "str" /\ IsIntLiteral(call.arg.text)

\* the call issued a GET to every configured endpoint
FetchedAll == Len(call.fetched) = Len(Endpoints)

\* the i-th GET returned a JSON body with a 'protocols' mapping
FetchedTable(i) ==
    /\ call.fetched[i].kind = "http"
    /\ call.fetched[i].json
    /\ call.fetched[i].doc.protocols # None

Matching(sessions, asn) == SelectSeq(sessions, LAMBDA x : x.neighbor_as = Some(asn))

\* the table the i-th GET fetched holds a session of the ASN
FetchedContains(i, asn) ==
    FetchedTable(i) /\ Matching(call.fetched[i].doc.protocols[1], asn) # <<>>

\* one row per endpoint whose fetched table holds the ASN, in configuration
\* order, with the state of the endpoint's first session of the ASN
RECURSIVE FetchedRows(_, _)
FetchedRows(i, asn) ==
    IF i > Len(Endpoints) THEN <<>>
    ELSE (IF i <= Len(call.fetched) /\ FetchedContains(i, asn)
          THEN << [City |-> Endpoints[i].loc, RouteServer |-> Endpoints[i].rs,
                   State |-> Matching(call.fetched[i].doc.protocols[1], asn)[1].state] >>
          ELSE <<>>) \o FetchedRows(i + 1, asn)

IsInvalidAdvisory(r) == r.kind = "advisory" /\ r.text = InvalidText

IsNotFoundAdvisory(r, n) == r.kind = "advisory" /\ r.text = NotFoundText /\ r.asn = n

----------------------------------------------------------------------------
(* C1 *)

\* C1: no endpoint entry carries both a session table ('data') and an error
\* flag ('error') at the same time.
C1_NeverBoth ==
    \A i \in EndpointIds :
        ~(route_servers[i].data # None /\ route_servers[i].error # None)

----------------------------------------------------------------------------
(* C2 *)

\* C2: a lookup of an integer ASN whose own refresh fetched a table holding
\* that ASN on at least one endpoint returns Found, with exactly the rows of
\* the endpoints whose fetched table holds it.
C2_FoundRowsPerEndpoint ==
    (/\ IsLookup
     /\ call.arg.type = "int"
     /\ FetchedAll
     /\ \E i \in EndpointIds : FetchedContains(i, call.arg.int))
    => (/\ call.result.kind = "table"
        /\ call.result.rows = FetchedRows(1, call.arg.int))

----------------------------------------------------------------------------
(* C3 *)

\* the step is an on_message call with a text that int() rejects
InvalidLookupStep ==
    /\ call'.op = "on_message"
    /\ call'.arg.type = "str"
    /\ ~IsIntLiteral(call'.arg.text)

\* C3: on_message with a text that fails integer parsing returns the
\* 'Please enter a valid ASN!' advisory without raising, issues no GET, and
\* leaves the stored snapshot as it was.
C3_InvalidInputNoFetch ==
    [][InvalidLookupStep =>
         /\ IsInvalidAdvisory(call'.result)
         /\ call'.result.caption = Some("Response")
         /\ call'.fetched = <<>>
         /\ route_servers' = route_servers]_vars

\* an invalid text was answered while one endpoint was populated and another
\* errored
C3_Witness ==
    /\ IsLookup
    /\ call.arg.type = "str"
    /\ ~IsIntLiteral(call.arg.text)
    /\ call.arg.text # <<>>
    /\ IsInvalidAdvisory(call.result)
    /\ \E i \in EndpointIds : route_servers[i].data # None
    /\ \E i \in EndpointIds : route_servers[i].error # None

----------------------------------------------------------------------------
(* C4 *)

\* the step is an on_message call with a text that int() parses
NumericTextStep ==
    /\ call'.op = "on_message"
    /\ call'.arg.type = "str"
    /\ IsIntLiteral(call'.arg.text)

\* the answers the endpoints may give that agree with those the step received
SameAnswers ==
    { resp \in [EndpointIds -> Responses] :
        \A i \in 1..Len(call'.fetched) : resp[i] = call'.fetched[i] }

\* C4: for every text s that parses to an integer n, on_message(s) returns
\* the identical result to on_message(n) from the same snapshot and the same
\* endpoint answers.
C4_TextEqualsInteger ==
    [][NumericTextStep =>
         \A resp \in SameAnswers :
             on_message(route_servers, IntArg(IntValue(call'.arg.text)), resp).result
               = call'.result]_vars

----------------------------------------------------------------------------
(* C5 *)

\* the step is a lookup of an integer in whose refresh some endpoint failed
FailingLookupStep ==
    /\ call'.op = "on_message"
    /\ call'.arg.type = "int"
    /\ \E i \in 1..Len(call'.fetched) :
           call'.fetched[i].kind = "refused" \/ ~call'.fetched[i].json

\* the endpoints that answered with a table in the step's refresh
HealthyInStep ==
    { i \in 1..Len(call'.fetched) :
        /\ call'.fetched[i].kind = "http"
        /\ call'.fetched[i].json
        /\ call'.fetched[i].doc.protocols # None }

\* C5: a failure on one endpoint marks only that endpoint errored, the
\* refresh still fetches every other endpoint, and a lookup of an ASN present
\* on a healthy endpoint returns Found with that endpoint's row.
C5_FailureIsolated ==
    [][FailingLookupStep =>
         /\ Len(call'.fetched) = Len(Endpoints)
         /\ \A i \in EndpointIds :
              IF call'.fetched[i].kind = "refused" \/ ~call'.fetched[i].json
              THEN route_servers'[i].error = Some(TRUE)
              ELSE route_servers'[i].error = route_servers[i].error
         /\ \A i \in HealthyInStep :
              Matching(call'.fetched[i].doc.protocols[1], call'.arg.int) # <<>>
              => /\ call'.result.kind = "table"
                 /\ \E k \in 1..Len(call'.result.rows) :
                      /\ call'.result.rows[k].City = Endpoints[i].loc
                      /\ call'.result.rows[k].RouteServer = Endpoints[i].rs]_vars

----------------------------------------------------------------------------
(* C6 *)

\* C6: when an endpoint's URL is absent, construction completes without
\* raising, that endpoint ends up errored, and every other endpoint is still
\* fetched.
C6_AbsentUrlErrored ==
    (call.op = "__init__" /\ \E i \in EndpointIds : route_servers[i].url = None)
    => (/\ constructed
        /\ call.result.kind # "raise"
        /\ \A i \in EndpointIds :
             IF route_servers[i].url = None
             THEN route_servers[i].error = Some(TRUE) /\ route_servers[i].data = None
             ELSE route_servers[i].error # None \/ route_servers[i].data # None)

----------------------------------------------------------------------------
(* C7 *)

\* a successful response whose JSON body is an object with a 'protocols' mapping
WellFormed(resp) ==
    /\ resp.kind = "http"
    /\ resp.status \in 200..299
    /\ resp.json
    /\ resp.doc.protocols # None

\* C7: a refresh stores a payload only when the response is successful and
\* well formed and marks the endpoint errored for every other response, and
\* no lookup or index scan raises on what is stored.
C7_OnlyWellFormedStored ==
    constructed =>
        /\ \A i \in 1..Len(call.fetched) :
             IF WellFormed(call.fetched[i])
             THEN route_servers[i].data = Some(call.fetched[i].doc)
             ELSE route_servers[i].error = Some(TRUE)
        /\ call.result.kind # "raise"

----------------------------------------------------------------------------
(* C8 *)

\* endpoint i is not errored and its stored table holds a session of the ASN
StoredContains(i, asn) ==
    /\ route_servers[i].error = None
    /\ route_servers[i].data # None
    /\ route_servers[i].data[1].protocols # None
    /\ Matching(route_servers[i].data[1].protocols[1], asn) # <<>>

\* C8: a lookup of an integer ASN that no non-errored endpoint's table holds
\* returns the 'AS<n> is not present on any Route Servers..' advisory.
C8_AbsentIsNotFound ==
    (/\ IsLookup
     /\ call.arg.type = "int"
     /\ \A i \in EndpointIds : ~StoredContains(i, call.arg.int))
    => IsNotFoundAdvisory(call.result, call.arg.int)

----------------------------------------------------------------------------
(* C9 *)

\* the fold of the claim: the endpoints that are populated and not errored, in
\* configuration order, each session with a neighbor_as appending its label
\* and overwriting the description
RECURSIVE PopulatedFold(_, _)
PopulatedFold(i, index) ==
    IF i > Len(Endpoints) THEN index
    ELSE IF /\ route_servers[i].data # None
            /\ route_servers[i].error = None
            /\ route_servers[i].data[1].protocols # None
         THEN PopulatedFold(i + 1,
                  IndexSessions(route_servers[i].data[1].protocols[1], Endpoints[i], index))
         ELSE PopulatedFold(i + 1, index)

\* C9: the asns view is the fold over exactly the endpoints that are populated
\* and not errored; an errored endpoint contributes nothing.
C9_IndexOfPopulated ==
    (constructed /\ call.op = "asns")
    => (/\ call.result.kind = "index"
        /\ call.result.index = PopulatedFold(1, <<>>))

----------------------------------------------------------------------------
(* C10 *)

\* C10: every on_message call whose input is an integer, or a text that
\* parses to one, issues a GET to every configured endpoint before answering.
C10_AlwaysRefetch ==
    (IsLookup /\ ArgIsInteger) => FetchedAll

====
